---- MODULE Spec2Model ----
(***************************************************************************)
(* Model of the icon build pipeline of eveicongenerator                    *)
(* (src/eveicongenerator/src/icons.rs, build_icon_export) together with    *)
(* the SharedCache resource store it reads                                 *)
(* (src/evesharedcache/src/cache.rs).                                      *)
(*                                                                         *)
(* Strings are sequences of tokens: a resource key, a cache filename and   *)
(* the bytes of cache.csv are sequences whose elements are the pieces the  *)
(* code's format! calls put together, so that formatting, joining and      *)
(* splitting are computed rather than assumed.                             *)
(***************************************************************************)
EXTENDS Integers, Sequences, FiniteSets, TLC

\* Option::None of an Option<u32>
None == -1

\* The record separator byte b'\x1E' of cache.csv
RS == "<1E>"

\* icons.rs:19
REACTION_GROUPS == {1888, 1889, 1890, 4097}
\* icons.rs:21
USE_ICON_INSTEAD_OF_GRAPHIC_GROUPS == {12, 340, 448, 479, 548, 649, 711, 4168}

\* Category ids compared by build_icon_export
CategoryBlueprint == 9
CategoryRelic == 34
CategorySkin == 91

\* IconKind::name
Icon == "icon"
Blueprint == "bp"
BlueprintCopy == "bpc"
Reaction == "reaction"
Relic == "relic"
Render == "render"
IconKind == {Icon, Blueprint, BlueprintCopy, Reaction, Relic, Render}

\* Display of a u32 inside format!
IdStr(n) ==
    CASE n = 7 -> "7"
      [] n = 8 -> "8"
      [] n = 55 -> "55"
      [] n = 56 -> "56"
      [] n = 100 -> "100"
      [] n = 101 -> "101"
      [] OTHER -> "0"

\* icons.rs:36, the resource of the tech-tier overlay of a meta group
techicon_resource_for_metagroup(metagroup_id) ==
    CASE metagroup_id = 1 -> <<>>
      [] metagroup_id = 2 -> <<"res:/ui/texture/icons/73_16_242", ".png">>
      [] metagroup_id = 3 -> <<"res:/ui/texture/icons/73_16_245", ".png">>
      [] metagroup_id = 4 -> <<"res:/ui/texture/icons/73_16_246", ".png">>
      [] metagroup_id = 5 -> <<"res:/ui/texture/icons/73_16_248", ".png">>
      [] metagroup_id = 6 -> <<"res:/ui/texture/icons/73_16_247", ".png">>
      [] metagroup_id = 14 -> <<"res:/ui/texture/icons/73_16_243", ".png">>
      [] metagroup_id = 15 -> <<"res:/ui/texture/icons/itemoverlay/abyssal", ".png">>
      [] metagroup_id = 17 -> <<"res:/ui/texture/icons/itemoverlay/nes", ".png">>
      [] metagroup_id = 19 -> <<"res:/ui/texture/icons/itemoverlay/timelimited", ".png">>
      [] metagroup_id = 52 -> <<"res:/ui/texture/shared/structureoverlayfaction", ".png">>
      [] metagroup_id = 53 -> <<"res:/ui/texture/shared/structureoverlayt2", ".png">>
      [] metagroup_id = 54 -> <<"res:/ui/texture/shared/structureoverlay", ".png">>
      [] OTHER -> <<>>

\* The fixed background and overlay resources of composite_blueprint recipes
ResRelic == <<"res:/ui/texture/icons/relic", ".png">>
ResRelicOverlay == <<"res:/ui/texture/icons/relic_overlay", ".png">>
ResReaction == <<"res:/ui/texture/icons/reaction", ".png">>
ResBpo == <<"res:/ui/texture/icons/bpo", ".png">>
ResBpoOverlay == <<"res:/ui/texture/icons/bpo_overlay", ".png">>
ResBpc == <<"res:/ui/texture/icons/bpc", ".png">>
ResBpcOverlay == <<"res:/ui/texture/icons/bpc_overlay", ".png">>

\* str::trim_end_matches: drop every trailing occurrence of one token
RECURSIVE trim_end_matches(_, _)
trim_end_matches(s, c) ==
    IF Len(s) > 0 /\ s[Len(s)] = c
    THEN trim_end_matches(SubSeq(s, 1, Len(s) - 1), c)
    ELSE s

\* format!("{}/{}<suffix>", folder.trim_end_matches('/'), graphic_id)
GraphicResource(folder, graphic_id, suffix, ext) ==
    trim_end_matches(folder, "/") \o <<"/", IdStr(graphic_id), suffix, ext>>

\* format!("res:/ui/texture/classes/skins/icons/{}.png", material_id)
SkinResource(material_id) ==
    <<"res:/ui/texture/classes/skins/icons/", IdStr(material_id), ".png">>

\* str::ends_with on the extension
ends_with(resource, extension) ==
    Len(resource) > 0 /\ resource[Len(resource)] = extension

VARIABLES
    \* IconBuildData and the resource store: the inputs of a run
    types, group_categories, icon_files, graphics_folders, skin_materials, store,
    \* arguments of the current run
    output_mode, skip_output_if_fresh, force_rebuild,
    \* locals of build_icon_export
    pc, pos, old_index, new_index, service_metadata, index_bytes, result,
    \* what the run did: compositor calls and web link mutations, in order
    calls, link_ops,
    \* the file system: icon_dir and the output locations
    cache_csv, icon_dir, web_dir, web_index, out_files, stdout,
    \* the previous run: its inputs, arguments and result
    prev, runs,
    \* CacheDownloader with its cache_dir during preload, and update_sde with
    \* the files of ./cache and the remote export
    downloader, sde

\* The programs beside build_icon_export, and their state while they are
\* not running
tools == <<downloader, sde>>
Idle == [pc |-> "idle"]

\* SharedCache::has_resource
has_resource(resource) == resource \in DOMAIN store

\* SharedCache::hash_of, where the resource is known
hash_of(resource) == store[resource]

\* One cache file a type asks for: the kinds recorded for it in
\* service_metadata, its filename, and the compositor call that builds it
\* (procedure, source resources in argument order, and the resource name
\* copy_or_convert tests the extension of).
Output(kinds, filename, proc, srcs, named, ext) ==
    [kinds |-> kinds, filename |-> filename, proc |-> proc, srcs |-> srcs,
     named |-> named, ext |-> ext]

\* A graphic blueprint file recorded as Blueprint only
GraphicBlueprintKindsNoIcon == {Blueprint}
\* icons.rs:276-277 and 291-292, the kinds of the graphic blueprint file
GraphicBlueprintKinds == {Icon, Blueprint}
\* A relic file recorded as Relic only
RelicKindsNoIcon == {Relic}
\* icons.rs:314-315
RelicKinds == {Icon, Relic}
\* A reaction file without the Blueprint kind
ReactionKindsNoBlueprint == {Icon, Reaction}
\* icons.rs:330-332; Blueprint is kept for compatibility with the image service
ReactionKinds == {Icon, Reaction, Blueprint}
\* icons.rs:348-349
IconBlueprintKinds == {Icon, Blueprint}

\* tech_overlay.map(|res| cache.hash_of(res)).transpose()?.unwrap_or("")
TechHash(tech) == IF tech = <<>> THEN <<>> ELSE <<hash_of(tech)>>
TechSrc(tech) == IF tech = <<>> THEN <<>> ELSE <<tech>>

\* icons.rs:269-305, a blueprint whose graphic folder is known
BlueprintGraphic(info, folder) ==
    LET icon_resource_bp == GraphicResource(folder, info.graphic_id, "_64_bp", ".png")
        icon_resource_bpc == GraphicResource(folder, info.graphic_id, "_64_bpc", ".png")
        techicon == techicon_resource_for_metagroup(
                        IF info.meta_group_id = None THEN 1 ELSE info.meta_group_id)
    IN  IF has_resource(icon_resource_bp)
           /\ info.group_id \notin USE_ICON_INSTEAD_OF_GRAPHIC_GROUPS
        THEN IF techicon # <<>>
             THEN IF ~has_resource(techicon)
                  THEN [outs |-> <<>>, fatal |-> TRUE]
                  ELSE [outs |->
                          <<Output(GraphicBlueprintKinds,
                                   <<"bp", ";", hash_of(icon_resource_bp), ";", hash_of(techicon), ".png">>,
                                   "composite_tech", <<icon_resource_bp, techicon>>, <<>>, ".png")>>
                          \o (IF has_resource(icon_resource_bpc)
                              THEN <<Output({BlueprintCopy},
                                            <<"bpc", ";", hash_of(icon_resource_bpc), ";", hash_of(techicon), ".png">>,
                                            "composite_tech", <<icon_resource_bpc, techicon>>, <<>>, ".png")>>
                              ELSE <<>>),
                        fatal |-> FALSE]
             ELSE [outs |->
                     <<Output(GraphicBlueprintKinds,
                              <<"bp", ";", hash_of(icon_resource_bp), ".png">>,
                              "copy_or_convert", <<icon_resource_bp>>, icon_resource_bp, ".png")>>
                     \o (IF has_resource(icon_resource_bpc)
                         THEN <<Output({BlueprintCopy},
                                       <<"bpc", ";", hash_of(icon_resource_bpc), ".png">>,
                                       "copy_or_convert", <<icon_resource_bpc>>, icon_resource_bp, ".png")>>
                         ELSE <<>>),
                   fatal |-> FALSE]
        ELSE [outs |-> <<>>, fatal |-> FALSE]

\* icons.rs:306-378, a blueprint without graphic folder that has an icon_id
BlueprintIcon(info, category_id) ==
    IF info.icon_id \notin DOMAIN icon_files
    THEN [outs |-> <<>>, fatal |-> TRUE]
    ELSE
    LET icon_resource == icon_files[info.icon_id]
        tech_overlay == techicon_resource_for_metagroup(
                            IF info.meta_group_id = None THEN 1 ELSE info.meta_group_id)
    IN  IF ~has_resource(icon_resource)
        THEN [outs |-> <<>>, fatal |-> FALSE]
        ELSE IF tech_overlay # <<>> /\ ~has_resource(tech_overlay)
        THEN [outs |-> <<>>, fatal |-> TRUE]
        ELSE IF category_id = CategoryRelic
        THEN [outs |->
                <<Output(RelicKinds,
                         <<"relic", ";", hash_of(icon_resource), ";">> \o TechHash(tech_overlay) \o <<".png">>,
                         "composite_blueprint",
                         <<ResRelic, ResRelicOverlay, icon_resource>> \o TechSrc(tech_overlay),
                         <<>>, ".png")>>,
              fatal |-> FALSE]
        ELSE IF info.group_id \in REACTION_GROUPS
        THEN [outs |->
                <<Output(ReactionKinds,
                         <<"reaction", ";", hash_of(icon_resource), ";">> \o TechHash(tech_overlay) \o <<".png">>,
                         "composite_blueprint",
                         <<ResReaction, ResBpoOverlay, icon_resource>> \o TechSrc(tech_overlay),
                         <<>>, ".png")>>,
              fatal |-> FALSE]
        ELSE [outs |->
                <<Output(IconBlueprintKinds,
                         <<"bp", ";", hash_of(icon_resource), ";">> \o TechHash(tech_overlay) \o <<".png">>,
                         "composite_blueprint",
                         <<ResBpo, ResBpoOverlay, icon_resource>> \o TechSrc(tech_overlay),
                         <<>>, ".png"),
                  Output({BlueprintCopy},
                         <<"bpc", ";", hash_of(icon_resource), ";">> \o TechHash(tech_overlay) \o <<".png">>,
                         "composite_blueprint",
                         <<ResBpc, ResBpcOverlay, icon_resource>> \o TechSrc(tech_overlay),
                         <<>>, ".png")>>,
              fatal |-> FALSE]

\* The icon of a regular item where a resource missing from the store is an
\* error
RegularIconStrict(info, icon_resource, before) ==
    IF has_resource(icon_resource)
    THEN [outs |-> before \o
             <<Output({Icon}, <<hash_of(icon_resource), ".png">>,
                      "copy_or_convert", <<icon_resource>>, icon_resource, ".png")>>,
          fatal |-> FALSE]
    ELSE [outs |-> before, fatal |-> TRUE]

\* icons.rs:420-440, the 64x64 icon of a regular item, after the outputs
\* `before` (its render)
RegularIcon(info, icon_resource, before) ==
    LET techicon == techicon_resource_for_metagroup(
                        IF info.meta_group_id = None THEN 1 ELSE info.meta_group_id)
    IN  IF ~has_resource(icon_resource)
        THEN [outs |-> before, fatal |-> FALSE]
        ELSE IF techicon # <<>>
        THEN IF ~has_resource(techicon)
             THEN [outs |-> before, fatal |-> TRUE]
             ELSE [outs |-> before \o
                      <<Output({Icon},
                               <<hash_of(icon_resource), ";", hash_of(techicon), ".png">>,
                               "composite_tech", <<icon_resource, techicon>>, <<>>, ".png")>>,
                   fatal |-> FALSE]
        ELSE [outs |-> before \o
                 <<Output({Icon}, <<hash_of(icon_resource), ".png">>,
                          "copy_or_convert", <<icon_resource>>, icon_resource, ".png")>>,
              fatal |-> FALSE]

\* icons.rs:383-441, a type outside categories 9 and 34
RegularItem(type_id, info, category_id) ==
    IF info.graphic_id # None /\ info.graphic_id \in DOMAIN graphics_folders
    THEN LET folder == graphics_folders[info.graphic_id]
             graphic_icon == GraphicResource(folder, info.graphic_id, "_64", ".png")
             render_resource == GraphicResource(folder, info.graphic_id, "_512", ".jpg")
             use_icon == ~has_resource(graphic_icon)
                         \/ info.group_id \in USE_ICON_INSTEAD_OF_GRAPHIC_GROUPS
             render == IF has_resource(render_resource)
                       THEN <<Output({Render}, <<hash_of(render_resource), ".jpg">>,
                                     "copy_or_convert", <<render_resource>>,
                                     render_resource, ".jpg")>>
                       ELSE <<>>
         IN  IF use_icon /\ info.icon_id = None
             THEN [outs |-> <<>>, fatal |-> FALSE]
             ELSE IF use_icon /\ info.icon_id \notin DOMAIN icon_files
             THEN [outs |-> <<>>, fatal |-> TRUE]
             ELSE RegularIcon(info,
                              IF use_icon THEN icon_files[info.icon_id] ELSE graphic_icon,
                              render)
    ELSE IF info.icon_id # None
    THEN IF info.icon_id \notin DOMAIN icon_files
         THEN [outs |-> <<>>, fatal |-> TRUE]
         ELSE RegularIcon(info, icon_files[info.icon_id], <<>>)
    ELSE IF category_id = CategorySkin
    THEN IF type_id \in DOMAIN skin_materials
         THEN RegularIcon(info, SkinResource(skin_materials[type_id]), <<>>)
         ELSE [outs |-> <<>>, fatal |-> FALSE]
    ELSE [outs |-> <<>>, fatal |-> FALSE]

\* icons.rs:260-442, the body of the loop over data.types for one type: the
\* cache files it asks for, in order, and whether a fatal error follows them
Classify(type_id, info) ==
    IF info.group_id \notin DOMAIN group_categories
    THEN [outs |-> <<>>, fatal |-> TRUE]
    ELSE
    LET category_id == group_categories[info.group_id]
    IN  IF info.icon_id = None /\ info.graphic_id = None /\ category_id # CategorySkin
        THEN [outs |-> <<>>, fatal |-> FALSE]
        ELSE IF category_id = CategoryBlueprint \/ category_id = CategoryRelic
        THEN IF info.graphic_id # None /\ info.graphic_id \in DOMAIN graphics_folders
             THEN BlueprintGraphic(info, graphics_folders[info.graphic_id])
             ELSE IF info.icon_id # None
             THEN BlueprintIcon(info, category_id)
             ELSE [outs |-> <<>>, fatal |-> FALSE]
        ELSE RegularItem(type_id, info, category_id)

\* Byte order of the tokens filenames are made of, for str::cmp
TokenOrder ==
    <<RS, ".jpg", ".png", ";", "a", "b", "bp", "bpc", "h1", "h2", "h3", "h4",
      "h5", "h6", "h7", "h8", "h9", "reaction", "relic">>
Rank(token) == CHOOSE i \in 1..Len(TokenOrder) : TokenOrder[i] = token

\* str::cmp, lexicographic
RECURSIVE StrLess(_, _)
StrLess(a, b) ==
    IF Len(b) = 0 THEN FALSE
    ELSE IF Len(a) = 0 THEN TRUE
    ELSE IF a[1] # b[1] THEN Rank(a[1]) < Rank(b[1])
    ELSE StrLess(Tail(a), Tail(b))

\* icons.rs:444-446, sort_index: the filenames of a set in ascending order
RECURSIVE sort_index(_)
sort_index(set) ==
    IF set = {} THEN <<>>
    ELSE LET least == CHOOSE x \in set : \A y \in set \ {x} : StrLess(x, y)
         IN  <<least>> \o sort_index(set \ {least})

\* icons.rs:445, new_index.iter() collected into a Vec: the filenames in the
\* iteration order of the HashSet, which depends on how it was filled
collect_into(set) ==
    {order \in [1..Cardinality(set) -> set] :
        \A i, j \in 1..Cardinality(set) : i # j => order[i] # order[j]}

\* A Vec that is left in the order it was collected in
slice_unsorted(names) == names

\* Insertion of one filename into an ascending Vec
RECURSIVE insert_sorted(_, _)
insert_sorted(name, sorted) ==
    IF Len(sorted) = 0 THEN <<name>>
    ELSE IF StrLess(name, sorted[1]) THEN <<name>> \o sorted
    ELSE <<sorted[1]>> \o insert_sorted(name, Tail(sorted))

\* icons.rs:446, slice::sort with str::cmp
RECURSIVE slice_sort_from(_, _)
slice_sort_from(names, sorted) ==
    IF Len(names) = 0 THEN sorted
    ELSE slice_sort_from(Tail(names), insert_sorted(names[1], sorted))
slice_sort(names) == slice_sort_from(names, <<>>)

\* icons.rs:448-452, intersperse("\x1E") and flatten to bytes
RECURSIVE intersperse_bytes(_)
intersperse_bytes(names) ==
    IF Len(names) = 0 THEN <<>>
    ELSE IF Len(names) = 1 THEN names[1]
    ELSE names[1] \o <<RS>> \o intersperse_bytes(Tail(names))

\* icons.rs:444-452, the bytes written to cache.csv for an index set
IndexBytes(set) == intersperse_bytes(sort_index(set))

\* BufRead::read_until: the length of the prefix up to and including the
\* first delimiter, or the whole input when there is none
RECURSIVE read_until(_, _)
read_until(delim, bytes) ==
    IF Len(bytes) = 0 THEN 0
    ELSE IF bytes[1] = delim THEN 1
    ELSE 1 + read_until(delim, Tail(bytes))

\* The read loop without trim_end_matches: the separator stays in the name
RECURSIVE read_index_untrimmed(_, _)
read_index_untrimmed(bytes, index) ==
    LET n == read_until(RS, bytes)
    IN  IF n = 0 THEN index
        ELSE read_index_untrimmed(SubSeq(bytes, n + 1, Len(bytes)),
                                  index \cup {SubSeq(bytes, 1, n)})

\* icons.rs:245-249, the loop that reads cache.csv into old_index
RECURSIVE read_index(_, _)
read_index(bytes, index) ==
    LET n == read_until(RS, bytes)
    IN  IF n = 0 THEN index
        ELSE read_index(SubSeq(bytes, n + 1, Len(bytes)),
                        index \cup {trim_end_matches(SubSeq(bytes, 1, n), RS)})

\* icons.rs:240-250, old_index as loaded from icon_dir/cache.csv
LoadIndex(csv) == IF csv.exists THEN read_index(csv.bytes, {}) ELSE {}

\* is_up_to_date with the force flag negated, and with the flag ignored
is_up_to_date_inverted(old, filename, force) == filename \in old /\ force
is_up_to_date_unforced(old, filename, force) == filename \in old
\* is_up_to_date that takes every filename as built already
is_up_to_date_always(old, filename, force) == TRUE
\* icons.rs:255-258; the value returned. The call also inserts the filename
\* into new_index, which the caller below does with RegisterNew.
is_up_to_date(old, filename, force) == filename \in old /\ ~force
RegisterNew(new, filename) == new \cup {filename}

\* Every file of the old index taken as stale
to_remove_all == old_index
\* icons.rs:456-457
to_remove == old_index \ new_index
to_add == new_index \ old_index

\* A function with no element: an empty HashMap
EmptyMap == [x \in {} |-> x]

\* The insert with a filename made per type: the type id put before the hashes
InsertKindsPerType(metadata, type_id, o) ==
    [t \in DOMAIN metadata \cup {type_id} |->
        LET cur == IF t \in DOMAIN metadata THEN metadata[t] ELSE EmptyMap
        IN  IF t = type_id
            THEN [k \in DOMAIN cur \cup o.kinds |->
                     IF k \in o.kinds THEN <<IdStr(type_id)>> \o o.filename ELSE cur[k]]
            ELSE cur]

\* The insert into a map that forgets the types inserted before
InsertKindsLastType(metadata, type_id, o) ==
    [t \in {type_id} |->
        LET cur == IF t \in DOMAIN metadata THEN metadata[t] ELSE EmptyMap
        IN  [k \in DOMAIN cur \cup o.kinds |->
                IF k \in o.kinds THEN o.filename ELSE cur[k]]]

\* service_metadata.entry(type_id).or_default().insert(kind, filename), for
\* every kind of one output
InsertKinds(metadata, type_id, o) ==
    [t \in DOMAIN metadata \cup {type_id} |->
        LET cur == IF t \in DOMAIN metadata THEN metadata[t] ELSE EmptyMap
        IN  IF t = type_id
            THEN [k \in DOMAIN cur \cup o.kinds |->
                     IF k \in o.kinds THEN o.filename ELSE cur[k]]
            ELSE cur]

\* The call sites of is_up_to_date: the recipe runs when it returns false
NeedsBuild(o) == ~is_up_to_date(old_index, o.filename, force_rebuild)

\* SharedCache::path_of fails with ResourceNotFound for an unknown resource
CanRead(o) == \A i \in 1..Len(o.srcs) : has_resource(o.srcs[i])

\* What composite_tech, composite_blueprint or copy_or_convert writes: the
\* procedure applied to the contents (hashes) of its sources, in order
Built(o) ==
    [proc |-> IF o.proc = "copy_or_convert"
              THEN (IF ends_with(o.named, o.ext) THEN "copy" ELSE "convert")
              ELSE o.proc,
     inputs |-> [i \in 1..Len(o.srcs) |-> hash_of(o.srcs[i])]]

\* fs write of one file into a directory
WriteFile(dir, name, content) ==
    [n \in DOMAIN dir \cup {name} |-> IF n = name THEN content ELSE dir[n]]

\* fs::remove_file of a set of files of a directory
RemoveFiles(dir, names) == [n \in DOMAIN dir \ names |-> dir[n]]

\* The outputs of one type, from the k-th on: insert into service_metadata,
\* is_up_to_date, and the build when it is needed. The build of output
\* fail_at fails (fail_at = 0: none does) and ends the loop there.
RECURSIVE RunOutputs(_, _, _, _, _)
RunOutputs(type_id, outs, k, fail_at, st) ==
    IF k > Len(outs) THEN st
    ELSE LET o == outs[k]
             st1 == [st EXCEPT !.new = RegisterNew(@, o.filename),
                               !.metadata = InsertKinds(@, type_id, o)]
         IN  IF k = fail_at THEN st1
             ELSE IF NeedsBuild(o)
             THEN RunOutputs(type_id, outs, k + 1, fail_at,
                     [st1 EXCEPT !.disk = WriteFile(@, o.filename, Built(o)),
                                 !.calls = Append(@, [proc |-> o.proc,
                                                      filename |-> o.filename])])
             ELSE RunOutputs(type_id, outs, k + 1, fail_at, st1)

\* The outputs whose build can fail: every needed build may (download,
\* decode or magick error), one that reads an unknown resource must
FailChoices(outs) ==
    LET must == {k \in 1..Len(outs) : NeedsBuild(outs[k]) /\ ~CanRead(outs[k])}
    IN  {k \in 1..Len(outs) : NeedsBuild(outs[k]) /\ \A m \in must : k <= m}
        \cup (IF must = {} THEN {0} ELSE {})

Err == [ok |-> FALSE, added |-> 0, removed |-> 0]

\* The inputs and arguments of the run in progress or just ended
RunInputs ==
    [types |-> types, store |-> store, output_mode |-> output_mode,
     skip_output_if_fresh |-> skip_output_if_fresh,
     force_rebuild |-> force_rebuild, result |-> result]

inputs == <<types, group_categories, icon_files, graphics_folders, skin_materials, store>>
files == <<cache_csv, icon_dir, web_dir, web_index, out_files, stdout>>
locals == <<pos, old_index, new_index, service_metadata, index_bytes, calls, link_ops>>
vars == <<inputs, files, locals, output_mode, skip_output_if_fresh, force_rebuild,
          pc, result, prev, runs, tools>>

\* Number of runs of build_icon_export in one behaviour
MaxRuns == 2

\* icons.rs:234-253, entry of build_icon_export: load old_index
StartRun(mode, skip, force, new_types, new_store) ==
    /\ pc \in {"idle", "done"}
    /\ runs < MaxRuns
    /\ runs' = runs + 1
    /\ prev' = IF pc = "done" THEN <<RunInputs>> ELSE <<>>
    /\ types' = new_types
    /\ store' = new_store
    /\ output_mode' = mode
    /\ skip_output_if_fresh' = skip
    /\ force_rebuild' = force
    /\ old_index' = LoadIndex(cache_csv)
    /\ new_index' = {}
    /\ service_metadata' = EmptyMap
    /\ index_bytes' = <<>>
    /\ calls' = <<>>
    /\ link_ops' = {}
    /\ pos' = 1
    /\ pc' = "loop"
    /\ result' = Err
    /\ UNCHANGED <<tools, group_categories, icon_files, graphics_folders, skin_materials, files>>

\* One iteration of the loop that saves the index as it goes
ProcessTypeSavingIndex ==
    /\ pc = "loop"
    /\ pos <= Len(types)
    /\ LET t == types[pos]
           cls == Classify(t.type_id, t.info)
       IN  \E fail_at \in FailChoices(cls.outs) :
             LET st == RunOutputs(t.type_id, cls.outs, 1, fail_at,
                                  [new |-> new_index, metadata |-> service_metadata,
                                   disk |-> icon_dir, calls |-> calls])
             IN  /\ new_index' = st.new
                 /\ service_metadata' = st.metadata
                 /\ icon_dir' = st.disk
                 /\ calls' = st.calls
                 /\ cache_csv' = [exists |-> TRUE, bytes |-> IndexBytes(st.new)]
                 /\ IF fail_at # 0 \/ cls.fatal
                    THEN pc' = "done" /\ pos' = pos
                    ELSE pc' = "loop" /\ pos' = pos + 1
    /\ UNCHANGED <<tools, inputs, web_dir, web_index, out_files, stdout,
                   old_index, index_bytes, link_ops, output_mode,
                   skip_output_if_fresh, force_rebuild, result, prev, runs>>

\* icons.rs:260-442, one iteration of the loop over data.types
ProcessType ==
    /\ pc = "loop"
    /\ pos <= Len(types)
    /\ LET t == types[pos]
           cls == Classify(t.type_id, t.info)
       IN  \E fail_at \in FailChoices(cls.outs) :
             LET st == RunOutputs(t.type_id, cls.outs, 1, fail_at,
                                  [new |-> new_index, metadata |-> service_metadata,
                                   disk |-> icon_dir, calls |-> calls])
             IN  /\ new_index' = st.new
                 /\ service_metadata' = st.metadata
                 /\ icon_dir' = st.disk
                 /\ calls' = st.calls
                 /\ IF fail_at # 0 \/ cls.fatal
                    THEN pc' = "done" /\ pos' = pos
                    ELSE pc' = "loop" /\ pos' = pos + 1
    /\ UNCHANGED <<tools, inputs, cache_csv, web_dir, web_index, out_files, stdout,
                   old_index, index_bytes, link_ops, output_mode,
                   skip_output_if_fresh, force_rebuild, result, prev, runs>>

\* icons.rs:260-442, the loop over a whole type list in which no build
\* fails, from the type at position k on
RECURSIVE TypeLoop(_, _, _)
TypeLoop(list, k, st) ==
    IF k > Len(list) THEN st
    ELSE TypeLoop(list, k + 1,
                  RunOutputs(list[k].type_id,
                             Classify(list[k].type_id, list[k].info).outs, 1, 0, st))

\* icons.rs:260-442, the loop over the list can reach its end: no type is
\* fatal and no build reads an unknown resource
LoopSucceeds(list) ==
    \A k \in 1..Len(list) :
        LET cls == Classify(list[k].type_id, list[k].info)
        IN  ~cls.fatal /\ 0 \in FailChoices(cls.outs)

\* icons.rs:444-454, after the loop: serialize new_index into cache.csv
WriteIndex ==
    /\ pc = "loop"
    /\ pos > Len(types)
    /\ \E order \in collect_into(new_index) :
          LET bytes == intersperse_bytes(slice_sort(order))
          IN  /\ index_bytes' = bytes
              /\ cache_csv' = [exists |-> TRUE, bytes |-> bytes]
    /\ pc' = "publish"
    /\ UNCHANGED <<tools, inputs, icon_dir, web_dir, web_index, out_files, stdout,
                   pos, old_index, new_index, service_metadata, calls, link_ops,
                   output_mode, skip_output_if_fresh, force_rebuild, result, prev, runs>>

\* OutputMode, with the location each mode writes to
ServiceBundle == [kind |-> "ServiceBundle", out |-> "bundle.zip", copy_files |-> FALSE, hard_link |-> FALSE]
IEC == [kind |-> "IEC", out |-> "iec.zip", copy_files |-> FALSE, hard_link |-> FALSE]
Web(copy_files, hard_link) == [kind |-> "Web", out |-> "web/", copy_files |-> copy_files, hard_link |-> hard_link]
Checksum(out) == [kind |-> "Checksum", out |-> out, copy_files |-> FALSE, hard_link |-> FALSE]
OutputModes ==
    {ServiceBundle, IEC, Checksum("checksum.txt"), Checksum(""),
     Web(TRUE, FALSE), Web(FALSE, TRUE), Web(FALSE, FALSE)}

\* md5::compute formatted with {:x}: a digest stands for the bytes it is of
Md5(bytes) == [md5 |-> bytes]

\* An archive that ships only the files this run added to the index
BundleArchiveAdded ==
    [complete |-> new_index \subseteq DOMAIN icon_dir,
     entries |-> [f \in to_add \cap DOMAIN icon_dir |-> icon_dir[f]],
     metadata |-> IF new_index \subseteq DOMAIN icon_dir THEN service_metadata ELSE EmptyMap]

\* icons.rs:466-481, the ServiceBundle archive
BundleArchive ==
    [complete |-> new_index \subseteq DOMAIN icon_dir,
     entries |-> [f \in new_index \cap DOMAIN icon_dir |-> icon_dir[f]],
     metadata |-> IF new_index \subseteq DOMAIN icon_dir THEN service_metadata ELSE EmptyMap]

\* Entry names that give the Blueprint kind an entry of its own
IecNameWithBlueprint(type_id, kind) ==
    CASE kind = Icon -> <<IdStr(type_id), "_64.png">>
      [] kind = Blueprint -> <<IdStr(type_id), "_bp_64.png">>
      [] kind = BlueprintCopy -> <<IdStr(type_id), "_bpc_64.png">>
      [] kind = Render -> <<IdStr(type_id), "_512.jpg">>
      [] OTHER -> <<>>

\* icons.rs:490,497,503, the legacy entry name of a (type, kind), if any
IecName(type_id, kind) ==
    CASE kind = Icon -> <<IdStr(type_id), "_64.png">>
      [] kind = BlueprintCopy -> <<IdStr(type_id), "_bpc_64.png">>
      [] kind = Render -> <<IdStr(type_id), "_512.jpg">>
      [] OTHER -> <<>>

\* The (type, kind) pairs of service_metadata
MetadataPairs ==
    UNION {{<<t, k>> : k \in DOMAIN service_metadata[t]} : t \in DOMAIN service_metadata}

\* icons.rs:482-512, the IEC archive
IecArchive ==
    LET wanted == {p \in MetadataPairs : IecName(p[1], p[2]) # <<>>}
        present == {p \in wanted : service_metadata[p[1]][p[2]] \in DOMAIN icon_dir}
    IN  [complete |-> present = wanted,
         entries |-> [n \in {IecName(p[1], p[2]) : p \in present} |->
                        LET p == CHOOSE q \in present : IecName(q[1], q[2]) = n
                        IN  icon_dir[service_metadata[p[1]][p[2]]]]]

\* icons.rs:527 and 538, names inside the web directory
JsonName(type_id) == <<IdStr(type_id), ".json">>
LinkName(type_id, kind) ==
    <<IdStr(type_id), "_", kind, ".", IF kind = Render THEN "jpg" ELSE "png">>

\* The orders a HashMap of the given keys can be iterated in
Orders(keys) ==
    {order \in [1..Cardinality(keys) -> keys] :
        \A i, j \in 1..Cardinality(keys) : i # j => order[i] # order[j]}

\* icons.rs:529-530, the manifest of every type: its kinds, in the iteration
\* order of that type's HashMap, which the code does not fix
ManifestChoices ==
    {json \in [DOMAIN service_metadata ->
                 UNION {Orders(DOMAIN service_metadata[t]) : t \in DOMAIN service_metadata}] :
        \A t \in DOMAIN service_metadata : json[t] \in Orders(DOMAIN service_metadata[t])}

\* icons.rs:519-523, index.json of the previous publication
old_links == IF web_index.exists THEN web_index.links ELSE EmptyMap

\* icons.rs:516-563, created_files for the manifests `json`
CreatedFiles(json) ==
    [n \in {JsonName(t) : t \in DOMAIN service_metadata}
           \cup {LinkName(p[1], p[2]) : p \in MetadataPairs} |->
        IF n[Len(n)] = ".json"
        THEN json[CHOOSE t \in DOMAIN service_metadata : JsonName(t) = n]
        ELSE LET p == CHOOSE q \in MetadataPairs : LinkName(q[1], q[2]) = n
             IN  service_metadata[p[1]][p[2]]]

\* A publication that writes every manifest and link, whatever index.json holds
RewrittenAlways(created) == DOMAIN created

\* icons.rs:532 and 542, the entries written: all under force_rebuild, else
\* those whose entry in index.json differs
Rewritten(created) ==
    {n \in DOMAIN created :
        force_rebuild \/ n \notin DOMAIN old_links \/ old_links[n] # created[n]}

\* icons.rs:565-574, the entries of the old index.json that are removed
Stale(created) == DOMAIN old_links \ DOMAIN created

\* icons.rs:544-557, the file a link name is given: a copy of the cache
\* file, or a hard or symbolic link to it
LinkFile(filename) ==
    IF output_mode.copy_files THEN [how |-> "copy", of |-> filename, data |-> <<icon_dir[filename]>>]
    ELSE IF output_mode.hard_link THEN [how |-> "hard", of |-> filename, data |-> <<>>]
    ELSE [how |-> "soft", of |-> filename, data |-> <<>>]

\* fs::copy and fs::hard_link fail when the cache file does not exist
LinkFails(created) ==
    {n \in Rewritten(created) :
        /\ n[Len(n)] # ".json"
        /\ (output_mode.copy_files \/ output_mode.hard_link)
        /\ created[n] \notin DOMAIN icon_dir}

\* icons.rs:513-576, the web directory after the publication
WebDir(created) ==
    LET written == Rewritten(created) \ LinkFails(created)
        kept == IF LinkFails(created) = {} THEN DOMAIN web_dir \ Stale(created)
                ELSE DOMAIN web_dir
    IN  [n \in kept \cup written |->
            IF n \in written
            THEN (IF n[Len(n)] = ".json"
                  THEN [how |-> "manifest", of |-> created[n], data |-> <<>>]
                  ELSE LinkFile(created[n]))
            ELSE web_dir[n]]

\* The link files a publication created, replaced or removed
LinkOps(created) ==
    {n \in Rewritten(created) \cup (Stale(created) \cap DOMAIN web_dir) :
        n[Len(n)] # ".json"}

\* icons.rs:459, nothing was added or removed
Fresh == to_add = {} /\ to_remove = {}

\* icons.rs:459-582, output materialization for the selected OutputMode
Publish ==
    /\ pc = "publish"
    /\ IF Fresh /\ skip_output_if_fresh
       THEN /\ pc' = "remove"
            /\ UNCHANGED <<web_dir, web_index, out_files, stdout, link_ops>>
       ELSE CASE output_mode.kind = "ServiceBundle" ->
                   /\ out_files' = WriteFile(out_files, output_mode.out, BundleArchive)
                   /\ pc' = IF BundleArchive.complete THEN "remove" ELSE "done"
                   /\ UNCHANGED <<web_dir, web_index, stdout, link_ops>>
              [] output_mode.kind = "IEC" ->
                   /\ out_files' = WriteFile(out_files, output_mode.out, IecArchive)
                   /\ pc' = IF IecArchive.complete THEN "remove" ELSE "done"
                   /\ UNCHANGED <<web_dir, web_index, stdout, link_ops>>
              [] output_mode.kind = "Web" ->
                   \E json \in ManifestChoices :
                     LET created == CreatedFiles(json)
                     IN  /\ web_dir' = WebDir(created)
                         /\ link_ops' = LinkOps(created)
                         /\ IF LinkFails(created) = {}
                            THEN /\ web_index' = [exists |-> TRUE, links |-> created]
                                 /\ pc' = "remove"
                            ELSE /\ web_index' = web_index
                                 /\ pc' = "done"
                         /\ UNCHANGED <<out_files, stdout>>
              [] output_mode.kind = "Checksum" /\ output_mode.out # "" ->
                   /\ out_files' = WriteFile(out_files, output_mode.out, Md5(index_bytes))
                   /\ pc' = "remove"
                   /\ UNCHANGED <<web_dir, web_index, stdout, link_ops>>
              [] output_mode.kind = "Checksum" /\ output_mode.out = "" ->
                   /\ stdout' = Append(stdout, Md5(index_bytes))
                   /\ pc' = "remove"
                   /\ UNCHANGED <<web_dir, web_index, out_files, link_ops>>
    /\ UNCHANGED <<tools, inputs, cache_csv, icon_dir, pos, old_index, new_index,
                   service_metadata, index_bytes, calls, output_mode,
                   skip_output_if_fresh, force_rebuild, result, prev, runs>>

\* icons.rs:584-588, delete the stale cache files and return the counts.
\* fs::remove_file of a missing file is an error, after the files iterated
\* before it were deleted.
RemoveStale ==
    /\ pc = "remove"
    /\ IF to_remove \subseteq DOMAIN icon_dir
       THEN /\ icon_dir' = RemoveFiles(icon_dir, to_remove)
            /\ result' = [ok |-> TRUE, added |-> Cardinality(to_add),
                          removed |-> Cardinality(to_remove)]
       ELSE /\ \E deleted \in SUBSET (to_remove \cap DOMAIN icon_dir) :
                 icon_dir' = RemoveFiles(icon_dir, deleted)
            /\ result' = Err
    /\ pc' = "done"
    /\ UNCHANGED <<tools, inputs, cache_csv, web_dir, web_index, out_files, stdout, locals,
                   output_mode, skip_output_if_fresh, force_rebuild, prev, runs>>

\* ---- The inputs the model runs on ----

\* iconIDs.yaml: icon 10 has a file, icon 11 is unknown
Icon10 == <<"res:/ui/texture/icons/10", ".png">>
IconFiles == [i \in {10} |-> Icon10]
\* graphicIDs.yaml: graphic 55 has a folder, graphic 56 has none
Folder55 == <<"res:/dx9/model/ship/55", "/">>
GraphicsFolders == [g \in {55} |-> Folder55]
TechIcon2 == techicon_resource_for_metagroup(2)

\* The content hash the store gives each resource, and the hash it has
\* after the resource was patched
BaseHash(resource) ==
    CASE resource = Icon10 -> "h1"
      [] resource = ResBpo -> "h3"
      [] resource = TechIcon2 -> "h4"
      [] resource = GraphicResource(Folder55, 55, "_64", ".png") -> "h5"
      [] resource = GraphicResource(Folder55, 55, "_512", ".jpg") -> "h6"
      [] resource = GraphicResource(Folder55, 55, "_64_bp", ".png") -> "h7"
      [] resource = GraphicResource(Folder55, 55, "_64_bpc", ".png") -> "h8"
      [] OTHER -> "h9"
Patched(resource) == IF resource = Icon10 THEN "h2" ELSE "h1"

\* Resources every store of the model holds: the blueprint backgrounds
Backgrounds ==
    {ResRelic, ResRelicOverlay, ResReaction, ResBpo, ResBpoOverlay, ResBpc, ResBpcOverlay}

StoreOf(resources) == [r \in resources |-> BaseHash(r)]

TypeInfo(group_id, icon_id, graphic_id, meta_group_id) ==
    [group_id |-> group_id, icon_id |-> icon_id, graphic_id |-> graphic_id,
     meta_group_id |-> meta_group_id]

\* Spec: type 100 is a regular item (group 25) or a blueprint (group 105),
\* type 101 a regular item, all with icon 10. Between two runs at most one
\* thing changes: a patch changes the hash of the icon or of the blueprint
\* background, or an update of the data export drops or adds a type.
Regular == TypeInfo(25, 10, None, None)
BlueprintType == TypeInfo(105, 10, None, None)
GroupCategories == [g \in {25, 105} |-> IF g = 25 THEN 6 ELSE CategoryBlueprint]
Catalog ==
    {[type_id |-> 100, info |-> Regular], [type_id |-> 100, info |-> BlueprintType],
     [type_id |-> 101, info |-> Regular]}
FirstTypes ==
    {<<a>> : a \in {c \in Catalog : c.type_id = 100}}
    \cup {<<a, b>> : a \in {c \in Catalog : c.type_id = 100},
                      b \in {c \in Catalog : c.type_id = 101}}
BaseStore == StoreOf(Backgrounds \cup {Icon10})
Patchable == {Icon10, ResBpo}

\* The type lists one update of the data export away: a type dropped, or a
\* type of the catalog whose id is not in the list added at the end
Updates(list) ==
    {SubSeq(list, 1, k - 1) \o SubSeq(list, k + 1, Len(list)) : k \in 1..Len(list)}
    \cup {Append(list, c) :
            c \in {d \in Catalog : \A i \in 1..Len(list) : list[i].type_id # d.type_id}}

\* The stores one patch away: the hash of one resource changes
Patches(s) ==
    {[s EXCEPT ![r] = IF s[r] = BaseHash(r) THEN Patched(r) ELSE BaseHash(r)] :
        r \in Patchable \cap DOMAIN s}

\* The inputs of the next run: those of the last run, or one change to them
NextInputs ==
    IF runs = 0 THEN {<<l, BaseStore>> : l \in FirstTypes}
    ELSE {<<types, store>>}
         \cup {<<l, store>> : l \in Updates(types)}
         \cup {<<types, s>> : s \in Patches(store)}

\* The state before the first run: nothing on disk
Fresh0 ==
    /\ output_mode = Checksum("")
    /\ skip_output_if_fresh = FALSE
    /\ force_rebuild = FALSE
    /\ pc = "idle"
    /\ pos = 1
    /\ old_index = {}
    /\ new_index = {}
    /\ service_metadata = EmptyMap
    /\ index_bytes = <<>>
    /\ result = Err
    /\ calls = <<>>
    /\ link_ops = {}
    /\ cache_csv = [exists |-> FALSE, bytes |-> <<>>]
    /\ icon_dir = EmptyMap
    /\ web_dir = EmptyMap
    /\ web_index = [exists |-> FALSE, links |-> EmptyMap]
    /\ out_files = EmptyMap
    /\ stdout = <<>>
    /\ prev = <<>>
    /\ downloader = Idle
    /\ sde = Idle

Init ==
    /\ types = <<>>
    /\ group_categories = GroupCategories
    /\ icon_files = IconFiles
    /\ graphics_folders = GraphicsFolders
    /\ skin_materials = EmptyMap
    /\ store = BaseStore
    /\ runs = 0
    /\ Fresh0

\* One deployment: every run uses the output mode of the first
Run ==
    \E mode \in (IF runs = 0 THEN OutputModes ELSE {output_mode}),
       skip \in BOOLEAN, force \in BOOLEAN,
       new_inputs \in NextInputs :
         StartRun(mode, skip, force, new_inputs[1], new_inputs[2])

Next == Run \/ ProcessType \/ WriteIndex \/ Publish \/ RemoveStale

Spec == Init /\ [][Next]_vars

\* ---- SpecClassify: one run over one type of any shape ----

\* Group 25 is an ordinary group, 12 a flat-icon override group, 1888 a
\* reaction group; icon 11 and graphic 56 are missing from their tables
ClassifyInfos ==
    {TypeInfo(g, i, gr, m) :
        g \in {25, 12, 1888}, i \in {None, 10, 11}, gr \in {None, 55, 56}, m \in {None, 2}}
\* The category of the type's group (0: the group has none) and whether the
\* type has a skin material
ClassifyCategories ==
    {<<c, FALSE>> : c \in {0, 6, CategoryBlueprint, CategoryRelic, CategorySkin}}
    \cup {<<CategorySkin, TRUE>>}
Skin7 == SkinResource(7)
G64 == GraphicResource(Folder55, 55, "_64", ".png")
G512 == GraphicResource(Folder55, 55, "_512", ".jpg")
G64Bp == GraphicResource(Folder55, 55, "_64_bp", ".png")
G64Bpc == GraphicResource(Folder55, 55, "_64_bpc", ".png")
\* The resources the classification of such a type can ask the store for
Consulted(info, cat) ==
    (IF info.icon_id = 10 THEN {Icon10} ELSE {})
    \cup (IF info.graphic_id # 55 THEN {}
          ELSE IF cat[1] \in {CategoryBlueprint, CategoryRelic} THEN {G64Bp, G64Bpc}
          ELSE {G64, G512})
    \cup (IF cat[2] THEN {Skin7} ELSE {})
    \cup (IF info.meta_group_id = 2 THEN {TechIcon2} ELSE {})

InitClassify ==
    /\ \E info \in ClassifyInfos, cat \in ClassifyCategories :
         /\ types = <<[type_id |-> 100, info |-> info]>>
         /\ group_categories = IF cat[1] = 0 THEN EmptyMap
                               ELSE [g \in {info.group_id} |-> cat[1]]
         /\ skin_materials = IF cat[2] THEN [t \in {100} |-> 7] ELSE EmptyMap
         /\ \E present \in SUBSET Consulted(info, cat) :
              store = StoreOf(Backgrounds \cup present)
    /\ icon_files = IconFiles
    /\ graphics_folders = GraphicsFolders
    /\ runs = 0
    /\ Fresh0

RunClassify ==
    /\ runs = 0
    /\ \E force \in BOOLEAN : StartRun(Checksum(""), FALSE, force, types, store)

NextClassify == RunClassify \/ ProcessType \/ WriteIndex \/ Publish \/ RemoveStale

SpecClassify == InitClassify /\ [][NextClassify]_vars

\* ---- SpecIndex: cache.csv written from an index set and read back ----

\* Longest filename and the alphabet filenames are drawn from
MaxNameLen == 2
NameTokens == {"a", "b"}
RECURSIVE NamesOfLen(_)
NamesOfLen(n) ==
    IF n = 0 THEN {<<>>}
    ELSE {Append(name, c) : name \in NamesOfLen(n - 1), c \in NameTokens}
\* Filenames: non-empty, without the separator
Names == UNION {NamesOfLen(n) : n \in 1..MaxNameLen}

InitIndex ==
    /\ types = <<>>
    /\ group_categories = GroupCategories
    /\ icon_files = IconFiles
    /\ graphics_folders = GraphicsFolders
    /\ skin_materials = EmptyMap
    /\ store = BaseStore
    /\ runs = 0
    /\ output_mode = Checksum("")
    /\ skip_output_if_fresh = FALSE
    /\ force_rebuild = FALSE
    /\ pc = "index"
    /\ pos = 1
    /\ old_index = {}
    /\ new_index \in SUBSET Names
    /\ service_metadata = EmptyMap
    /\ index_bytes = <<>>
    /\ result = Err
    /\ calls = <<>>
    /\ link_ops = {}
    /\ cache_csv = [exists |-> FALSE, bytes |-> <<>>]
    /\ icon_dir = EmptyMap
    /\ web_dir = EmptyMap
    /\ web_index = [exists |-> FALSE, links |-> EmptyMap]
    /\ out_files = EmptyMap
    /\ stdout = <<>>
    /\ prev = <<>>
    /\ downloader = Idle
    /\ sde = Idle

\* icons.rs:444-454 on its own
SaveIndex ==
    /\ pc = "index"
    /\ index_bytes' = IndexBytes(new_index)
    /\ cache_csv' = [exists |-> TRUE, bytes |-> IndexBytes(new_index)]
    /\ pc' = "saved"
    /\ UNCHANGED <<tools, inputs, icon_dir, web_dir, web_index, out_files, stdout,
                   pos, old_index, new_index, service_metadata, calls, link_ops,
                   output_mode, skip_output_if_fresh, force_rebuild, result, prev, runs>>

\* icons.rs:240-250 on its own
ReloadIndex ==
    /\ pc = "saved"
    /\ old_index' = LoadIndex(cache_csv)
    /\ pc' = "loaded"
    /\ UNCHANGED <<tools, inputs, files, pos, new_index, service_metadata, index_bytes,
                   calls, link_ops, output_mode, skip_output_if_fresh,
                   force_rebuild, result, prev, runs>>

NextIndex == SaveIndex \/ ReloadIndex

SpecIndex == InitIndex /\ [][NextIndex]_vars

\* ---- SpecPair: one run over a type of any shape and a regular item ----

\* Icon 12 has a file, which every store of SpecPair holds; type 101 of
\* group 26, category 6, uses it
Icon12 == <<"res:/ui/texture/icons/12", ".png">>
PairIconFiles == [i \in {10, 12} |-> IF i = 10 THEN Icon10 ELSE Icon12]
SecondType == [type_id |-> 101, info |-> TypeInfo(26, 12, None, None)]

InitPair ==
    /\ \E info \in ClassifyInfos, cat \in ClassifyCategories :
         /\ types = <<[type_id |-> 100, info |-> info], SecondType>>
         /\ group_categories = [g \in (IF cat[1] = 0 THEN {} ELSE {info.group_id}) \cup {26} |->
                                  IF g = 26 THEN 6 ELSE cat[1]]
         /\ skin_materials = IF cat[2] THEN [t \in {100} |-> 7] ELSE EmptyMap
         /\ \E present \in SUBSET Consulted(info, cat) :
              store = StoreOf(Backgrounds \cup present \cup {Icon12})
    /\ icon_files = PairIconFiles
    /\ graphics_folders = GraphicsFolders
    /\ runs = 0
    /\ Fresh0

NextPair == RunClassify \/ ProcessType \/ WriteIndex \/ Publish \/ RemoveStale

SpecPair == InitPair /\ [][NextPair]_vars

\* ---- SpecCrash: runs that can be interrupted, on a cache that an earlier
\* run filled ----

\* The cache directory and index after a successful run over one type of
\* the catalog, in checksum mode
SeedTypes == {<<c>> : c \in {d \in Catalog : d.type_id = 100}}
SeedRun(list) ==
    RunOutputs(list[1].type_id, Classify(list[1].type_id, list[1].info).outs, 1, 0,
               [new |-> {}, metadata |-> EmptyMap, disk |-> EmptyMap, calls |-> <<>>])

InitCrash ==
    /\ group_categories = GroupCategories
    /\ icon_files = IconFiles
    /\ graphics_folders = GraphicsFolders
    /\ skin_materials = EmptyMap
    /\ store = BaseStore
    /\ runs = 0
    /\ output_mode = Checksum("")
    /\ skip_output_if_fresh = FALSE
    /\ force_rebuild = FALSE
    /\ pc = "idle"
    /\ pos = 1
    /\ old_index = {}
    /\ new_index = {}
    /\ service_metadata = EmptyMap
    /\ index_bytes = <<>>
    /\ result = Err
    /\ calls = <<>>
    /\ link_ops = {}
    /\ types \in SeedTypes
    /\ icon_dir = SeedRun(types).disk
    /\ cache_csv = [exists |-> TRUE, bytes |-> IndexBytes(SeedRun(types).new)]
    /\ stdout = <<Md5(IndexBytes(SeedRun(types).new))>>
    /\ web_dir = EmptyMap
    /\ web_index = [exists |-> FALSE, links |-> EmptyMap]
    /\ out_files = EmptyMap
    /\ prev = <<>>
    /\ downloader = Idle
    /\ sde = Idle

\* A run on the inputs of the run before, or one change away from them
RunCrash ==
    \E skip \in BOOLEAN, force \in BOOLEAN,
       new_inputs \in {<<types, store>>}
                       \cup {<<l, store>> : l \in Updates(types) \ {<<>>}}
                       \cup {<<types, s>> : s \in Patches(store)} :
         StartRun(output_mode, skip, force, new_inputs[1], new_inputs[2])

\* The process is killed, or an I/O error of the publication ends the run:
\* build_icon_export has no cleanup, the disk stays as it is. Killed in the
\* loop of icons.rs:584-586, some of the stale files are already deleted.
Interrupt ==
    /\ pc \in {"loop", "publish", "remove"}
    /\ pc' = "done"
    /\ result' = Err
    /\ IF pc = "remove"
       THEN \E deleted \in SUBSET (to_remove \cap DOMAIN icon_dir) :
                icon_dir' = RemoveFiles(icon_dir, deleted)
       ELSE icon_dir' = icon_dir
    /\ UNCHANGED <<tools, inputs, cache_csv, web_dir, web_index, out_files, stdout, locals,
                   output_mode, skip_output_if_fresh, force_rebuild, prev, runs>>

NextCrash == RunCrash \/ ProcessType \/ WriteIndex \/ Publish \/ RemoveStale \/ Interrupt

SpecCrash == InitCrash /\ [][NextCrash]_vars

\* ---- SpecPreload: one call of CacheDownloader::preload ----

\* The variables of build_icon_export, which the other programs leave alone
build == <<inputs, files, locals, output_mode, skip_output_if_fresh, force_rebuild,
           pc, result, prev, runs>>

\* build_icon_export not running, on empty directories
NoBuild ==
    /\ types = <<>>
    /\ group_categories = GroupCategories
    /\ icon_files = IconFiles
    /\ graphics_folders = GraphicsFolders
    /\ skin_materials = EmptyMap
    /\ store = BaseStore
    /\ runs = 0
    /\ output_mode = Checksum("")
    /\ skip_output_if_fresh = FALSE
    /\ force_rebuild = FALSE
    /\ pc = "idle"
    /\ pos = 1
    /\ old_index = {}
    /\ new_index = {}
    /\ service_metadata = EmptyMap
    /\ index_bytes = <<>>
    /\ result = Err
    /\ calls = <<>>
    /\ link_ops = {}
    /\ cache_csv = [exists |-> FALSE, bytes |-> <<>>]
    /\ icon_dir = EmptyMap
    /\ web_dir = EmptyMap
    /\ web_index = [exists |-> FALSE, links |-> EmptyMap]
    /\ out_files = EmptyMap
    /\ stdout = <<>>
    /\ prev = <<>>

\* Largest max_items and the most entries of the two indexes together
MaxItems == 3
MaxEntries == 3

\* IndexEntry.path: the location of a file below cache_dir and on the CDN;
\* two resources of the same content have the same path
Paths == {"aa/1", "bb/2", "cc/3"}

\* cache.rs:349, res_index.values().chain(app_index.values()): the entries
\* in the iteration order of the two HashMaps
RECURSIVE EntriesOfLen(_)
EntriesOfLen(n) ==
    IF n = 0 THEN {<<>>}
    ELSE {Append(e, path) : e \in EntriesOfLen(n - 1), path \in Paths}
Entries == UNION {EntriesOfLen(n) : n \in 0..MaxEntries}

\* Result<u64, CacheError>
PreloadOk(count) == [ok |-> TRUE, value |-> count]
PreloadErr == [ok |-> FALSE, value |-> 0]

\* cache.rs:347-348, the call: downloaded = 0, on any cache directory
InitPreload ==
    /\ NoBuild
    /\ sde = Idle
    /\ \E entries \in Entries, cached \in SUBSET Paths, max_items \in 0..MaxItems :
         downloader = [pc |-> "loop", entries |-> entries, cache_dir |-> cached,
                       max_items |-> max_items, downloaded |-> 0, at |-> 1,
                       fetched |-> <<>>, ret |-> PreloadErr]

\* cache.rs:301-326, ensure_cached: whether the file has to be downloaded
ensure_cached(cache_dir, path) == path \notin cache_dir

\* cache.rs:349-358, one iteration of the loop of preload. The download of a
\* file that is not cached can fail, which ends the call with the error.
PreloadEntry ==
    /\ downloader.pc = "loop"
    /\ downloader.at <= Len(downloader.entries)
    /\ LET path == downloader.entries[downloader.at]
           is_some == ensure_cached(downloader.cache_dir, path)
       IN  \E http_ok \in (IF is_some THEN BOOLEAN ELSE {TRUE}) :
             IF ~http_ok
             THEN downloader' = [downloader EXCEPT !.pc = "done", !.ret = PreloadErr]
             ELSE LET downloaded == IF is_some THEN downloader.downloaded + 1
                                    ELSE downloader.downloaded
                  IN  downloader' =
                        [downloader EXCEPT
                           !.cache_dir = @ \cup {path},
                           !.fetched = IF is_some THEN Append(@, path) ELSE @,
                           !.downloaded = downloaded,
                           !.at = @ + 1,
                           !.pc = IF downloaded >= downloader.max_items
                                  THEN "break" ELSE "loop"]
    /\ UNCHANGED <<build, sde>>

\* cache.rs:359, Ok(downloaded) after the break or the last entry
PreloadReturn ==
    /\ \/ downloader.pc = "break"
       \/ downloader.pc = "loop" /\ downloader.at > Len(downloader.entries)
    /\ downloader' = [downloader EXCEPT !.pc = "done",
                                        !.ret = PreloadOk(downloader.downloaded)]
    /\ UNCHANGED <<build, sde>>

NextPreload == PreloadEntry \/ PreloadReturn

SpecPreload == InitPreload /\ [][NextPreload]_vars

\* ---- SpecCollide: runs over a blueprint with a graphic folder and a
\* blueprint with an icon, both of meta group 2 ----

\* Type 100 has graphic 55 and no icon, type 101 has icon 10 and no graphic
GraphicBlueprint == [type_id |-> 100, info |-> TypeInfo(105, None, 55, 2)]
IconBlueprint == [type_id |-> 101, info |-> TypeInfo(105, 10, None, 2)]

\* The stores: the _64_bp.png of graphic 55 has content of its own, or the
\* content of the file of icon 10; its _64_bpc.png may be missing
CollideStores ==
    {[StoreOf(Backgrounds \cup {Icon10, TechIcon2, G64Bp} \cup bpc) EXCEPT ![G64Bp] = h] :
        h \in {BaseHash(G64Bp), BaseHash(Icon10)}, bpc \in SUBSET {G64Bpc}}

InitCollide ==
    /\ types \in {<<GraphicBlueprint, IconBlueprint>>, <<IconBlueprint, GraphicBlueprint>>}
    /\ group_categories = GroupCategories
    /\ icon_files = IconFiles
    /\ graphics_folders = GraphicsFolders
    /\ skin_materials = EmptyMap
    /\ store \in CollideStores
    /\ runs = 0
    /\ Fresh0

\* A run on the same inputs, in checksum mode
RunCollide ==
    \E skip \in BOOLEAN, force \in BOOLEAN :
        StartRun(Checksum("checksum.txt"), skip, force, types, store)

NextCollide == RunCollide \/ ProcessType \/ WriteIndex \/ Publish \/ RemoveStale

SpecCollide == InitCollide /\ [][NextCollide]_vars

\* ---- SpecSde: calls of update_sde on the files of ./cache ----

\* Number of calls of update_sde in one behaviour
MaxUpdates == 3

\* The checksums the export is published under, one per release
Versions == {"v1", "v2"}

\* ./cache/fsd.zip: the release it was downloaded from and whether the
\* download reached the end of the archive
NoZip == [exists |-> FALSE, of |-> "", complete |-> FALSE]

\* Result<ZipArchive<File>, io::Error>, the archive named by its release
SdeOk(version) == [ok |-> TRUE, version |-> version]
SdeErr == [ok |-> FALSE, version |-> ""]

\* Before the first call: no ./cache, any release published
InitSde ==
    /\ NoBuild
    /\ downloader = Idle
    /\ \E remote \in Versions :
         sde = [pc |-> "idle", remote |-> remote, calls |-> 0,
                checksum_txt |-> "", fsd_zip |-> NoZip,
                new_version |-> "", download |-> TRUE, ret |-> SdeErr]

\* sde.rs:26-31, get_fsd_checksum and the comparison with checksum.txt; the
\* request can fail
UpdateSde ==
    /\ sde.pc \in {"idle", "done"}
    /\ sde.calls < MaxUpdates
    /\ \E http_ok \in BOOLEAN :
         IF ~http_ok
         THEN sde' = [sde EXCEPT !.pc = "done", !.calls = @ + 1, !.ret = SdeErr]
         ELSE LET download == IF sde.fsd_zip.exists /\ sde.checksum_txt # ""
                              THEN sde.checksum_txt # sde.remote
                              ELSE TRUE
              IN  sde' = [sde EXCEPT !.calls = @ + 1,
                                     !.new_version = sde.remote,
                                     !.download = download,
                                     !.ret = SdeErr,
                                     !.pc = IF download THEN "write" ELSE "open"]
    /\ UNCHANGED <<build, downloader>>

\* sde.rs:34-35, fs::write("./cache/checksum.txt", new_version)
WriteChecksum ==
    /\ sde.pc = "write"
    /\ sde' = [sde EXCEPT !.checksum_txt = sde.new_version, !.pc = "create"]
    /\ UNCHANGED <<build, downloader>>

\* sde.rs:36, File::create("./cache/fsd.zip") truncates the file
CreateZip ==
    /\ sde.pc = "create"
    /\ sde' = [sde EXCEPT !.fsd_zip = [exists |-> TRUE, of |-> sde.remote,
                                       complete |-> FALSE],
                          !.pc = "copy"]
    /\ UNCHANGED <<build, downloader>>

\* sde.rs:16-22 and 36, download_fsd copies the response into fsd.zip
DownloadFsd ==
    /\ sde.pc = "copy"
    /\ sde' = [sde EXCEPT !.fsd_zip.complete = TRUE, !.pc = "open"]
    /\ UNCHANGED <<build, downloader>>

\* sde.rs:34-36, an I/O or network error ('?') or the end of the process
\* during the download block
FailSde ==
    /\ sde.pc \in {"write", "create", "copy"}
    /\ sde' = [sde EXCEPT !.pc = "done", !.ret = SdeErr]
    /\ UNCHANGED <<build, downloader>>

\* sde.rs:40, ZipArchive::new(File::open("./cache/fsd.zip")?): an archive cut
\* short has no central directory and is not opened
OpenZip ==
    /\ sde.pc = "open"
    /\ sde' = [sde EXCEPT !.pc = "done",
                          !.ret = IF sde.fsd_zip.exists /\ sde.fsd_zip.complete
                                  THEN SdeOk(sde.fsd_zip.of) ELSE SdeErr]
    /\ UNCHANGED <<build, downloader>>

\* Between two calls a new release is published
Release ==
    /\ sde.pc \in {"idle", "done"}
    /\ \E version \in Versions \ {sde.remote} : sde' = [sde EXCEPT !.remote = version]
    /\ UNCHANGED <<build, downloader>>

NextSde ==
    UpdateSde \/ WriteChecksum \/ CreateZip \/ DownloadFsd \/ FailSde \/ OpenZip \/ Release

SpecSde == InitSde /\ [][NextSde]_vars

\* ---- Properties ----

\* A compositor operation wrote this cache file in the current run
Called(filename) == \E i \in 1..Len(calls) : calls[i].filename = filename
\* The kinds service_metadata holds for a type
Kinds(type_id) ==
    IF type_id \in DOMAIN service_metadata THEN DOMAIN service_metadata[type_id] ELSE {}
\* The outputs of the type at position i of the list
OutputsOf(i) == Classify(types[i].type_id, types[i].info).outs
\* The run before the current one succeeded, with the same inputs, output
\* mode and skip flag
SameAsPreviousRun ==
    /\ prev # <<>>
    /\ prev[1].result.ok
    /\ prev[1].types = types
    /\ prev[1].store = store
    /\ prev[1].output_mode = output_mode
    /\ prev[1].skip_output_if_fresh = skip_output_if_fresh

SameRecipe(o, p) == o.kinds = p.kinds /\ Built(o) = Built(p)

\* C2: two types processed in one run whose recipes have the same tag and
\* the same ordered source hashes have the same filename in
\* service_metadata; that filename is in the index and is a file of the
\* cache directory.
C2_ContentAddressing ==
    pc \in {"loop", "publish", "remove", "done"} =>
        \A i, j \in 1..(pos - 1) :
            \A a \in 1..Len(OutputsOf(i)), b \in 1..Len(OutputsOf(j)) :
                LET o == OutputsOf(i)[a]
                    p == OutputsOf(j)[b]
                IN  SameRecipe(o, p) =>
                        /\ \A k \in o.kinds, l \in p.kinds :
                              /\ service_metadata[types[i].type_id][k] = o.filename
                              /\ service_metadata[types[j].type_id][l] = o.filename
                        /\ o.filename \in new_index
                        /\ o.filename \in DOMAIN icon_dir
C2_Witness ==
    /\ pc = "done" /\ result.ok
    /\ Len(types) = 2
    /\ Icon \in Kinds(100) /\ Icon \in Kinds(101)
    /\ service_metadata[100][Icon] = service_metadata[101][Icon]
    /\ Called(service_metadata[100][Icon])
    /\ Cardinality(new_index) = 1

\* C3: while a run is in its loop or past it, the old set is the one loaded
\* from cache.csv, every filename of a processed type is in the new set, and
\* a filename of the new set was left unbuilt exactly if it is in the old
\* set and force_rebuild is false: every other one was built before the
\* next type.
C3_UpToDate ==
    pc \in {"loop", "publish", "remove"} =>
        /\ pc = "loop" => old_index = LoadIndex(cache_csv)
        /\ \A i \in 1..(pos - 1) : \A a \in 1..Len(OutputsOf(i)) :
              OutputsOf(i)[a].filename \in new_index
        /\ \A f \in new_index : ~Called(f) <=> (f \in old_index /\ ~force_rebuild)
C3_Witness ==
    /\ pc = "loop" /\ pos = 3
    /\ \E f \in new_index : f \in old_index /\ ~Called(f)
    /\ \E f \in new_index : f \notin old_index /\ Called(f)

\* The hashes a filename is made of
NameTokensOf(filename) == {filename[i] : i \in 1..Len(filename)}

\* C4: the filename of every recipe contains the hash of every resource the
\* recipe reads, the backgrounds and overlays of composite_blueprint
\* included; and when the hash of a resource read by a recipe differs from
\* the previous run, the recipe is built again.
C4_NameCoversSources ==
    pc \in {"loop", "publish", "remove", "done"} =>
        \A i \in 1..(pos - 1) : \A a \in 1..Len(OutputsOf(i)) :
            LET o == OutputsOf(i)[a]
            IN  /\ \A n \in 1..Len(o.srcs) : hash_of(o.srcs[n]) \in NameTokensOf(o.filename)
                /\ (prev # <<>> /\ \E n \in 1..Len(o.srcs) :
                                     prev[1].store[o.srcs[n]] # store[o.srcs[n]])
                       => Called(o.filename)

\* The failing case of C4: a blueprint background changed between two runs
\* and the second run, without force_rebuild, kept the file of the first
C4_StaleBlueprint ==
    /\ pc = "done" /\ result.ok /\ ~force_rebuild
    /\ prev # <<>> /\ prev[1].result.ok /\ prev[1].types = types
    /\ prev[1].store[ResBpo] # store[ResBpo]
    /\ \E i \in 1..Len(types) : \E a \in 1..Len(OutputsOf(i)) :
          LET o == OutputsOf(i)[a]
          IN  /\ o.srcs[1] = ResBpo
              /\ ~Called(o.filename)
              /\ o.filename \in DOMAIN icon_dir
              /\ icon_dir[o.filename] # Built(o)

\* C5: reading back the cache.csv written for a set of filenames gives the
\* same set.
C5_RoundTrip == pc = "loaded" => old_index = new_index
C5_Witness ==
    /\ pc = "loaded"
    /\ Cardinality(new_index) >= 3
    /\ old_index = new_index

\* SpecClassify: the type of the run, its category, and that the loop has
\* passed it without error
TheType == types[1]
CategoryOf(info) ==
    IF info.group_id \in DOMAIN group_categories THEN group_categories[info.group_id] ELSE 0
FolderKnown(info) == info.graphic_id # None /\ info.graphic_id \in DOMAIN graphics_folders
Processed == Len(types) = 1 /\ pos = 2

\* C6 as claimed: a category 9 type with a known graphic folder and both
\* _64_bp.png and _64_bpc.png in the store gets exactly Icon, Blueprint and
\* BlueprintCopy, Icon and Blueprint on one file; with only _64_bp.png,
\* exactly Icon and Blueprint.
C6_GraphicBlueprintKinds ==
    (Processed /\ CategoryOf(TheType.info) = 9 /\ FolderKnown(TheType.info)
               /\ has_resource(G64Bp))
        => /\ Kinds(100) = IF has_resource(G64Bpc) THEN {Icon, Blueprint, BlueprintCopy}
                           ELSE {Icon, Blueprint}
           /\ service_metadata[100][Icon] = service_metadata[100][Blueprint]
\* C6 amended: the same for a type whose group is not in the flat-icon
\* override set.
C6_GraphicBlueprintKindsAmended ==
    (Processed /\ CategoryOf(TheType.info) = 9 /\ FolderKnown(TheType.info)
               /\ has_resource(G64Bp)
               /\ TheType.info.group_id \notin {12, 340, 448, 479, 548, 649, 711, 4168})
        => /\ Kinds(100) = IF has_resource(G64Bpc) THEN {Icon, Blueprint, BlueprintCopy}
                           ELSE {Icon, Blueprint}
           /\ service_metadata[100][Icon] = service_metadata[100][Blueprint]
C6_Witness ==
    /\ Processed /\ CategoryOf(TheType.info) = 9 /\ FolderKnown(TheType.info)
    /\ has_resource(G64Bp) /\ has_resource(G64Bpc)
    /\ TheType.info.group_id = 25
    /\ Kinds(100) = {Icon, Blueprint, BlueprintCopy}
    /\ service_metadata[100][Icon] # service_metadata[100][BlueprintCopy]

\* C7: a category 9 or 34 type to which the graphic rule does not apply (no
\* folder, override group, or no _64_bp.png in the store) and whose icon_id
\* maps to a resource of the store gets kind Icon.
C7_IconFallback ==
    (/\ Processed
     /\ CategoryOf(TheType.info) \in {9, 34}
     /\ \/ ~FolderKnown(TheType.info)
        \/ TheType.info.group_id \in {12, 340, 448, 479, 548, 649, 711, 4168}
        \/ ~has_resource(G64Bp)
     /\ TheType.info.icon_id \in DOMAIN icon_files
     /\ has_resource(icon_files[TheType.info.icon_id]))
        => Icon \in Kinds(100)

\* The failing case of C7: the folder is known, _64_bp.png is not in the
\* store, the icon resource is, and the type got nothing
C7_NoFallback ==
    /\ pc = "done" /\ result.ok
    /\ CategoryOf(TheType.info) = 9
    /\ FolderKnown(TheType.info) /\ ~has_resource(G64Bp)
    /\ TheType.info.group_id = 25
    /\ TheType.info.icon_id = 10 /\ has_resource(Icon10)
    /\ Kinds(100) = {}
    /\ new_index = {}

\* C8: on the icon_id path of a category 9 or 34 type: category 34 gives
\* exactly Icon and Relic on one relic file; else a reaction group gives
\* exactly Icon, Reaction and Blueprint on one reaction file; else Icon and
\* Blueprint on one bp file and BlueprintCopy on a bpc file.
OnIconPath ==
    /\ Processed
    /\ CategoryOf(TheType.info) \in {9, 34}
    /\ ~FolderKnown(TheType.info)
    /\ TheType.info.icon_id \in DOMAIN icon_files
    /\ has_resource(icon_files[TheType.info.icon_id])
AllOn(kinds, tag) ==
    /\ Kinds(100) = kinds
    /\ \A k \in kinds : service_metadata[100][k] = service_metadata[100][Icon]
    /\ service_metadata[100][Icon][1] = tag
C8_IconPathKinds ==
    OnIconPath =>
        IF CategoryOf(TheType.info) = 34 THEN AllOn({Icon, Relic}, "relic")
        ELSE IF TheType.info.group_id \in {1888, 1889, 1890, 4097}
        THEN AllOn({Icon, Reaction, Blueprint}, "reaction")
        ELSE /\ Kinds(100) = {Icon, Blueprint, BlueprintCopy}
             /\ service_metadata[100][Icon] = service_metadata[100][Blueprint]
             /\ service_metadata[100][Icon][1] = "bp"
             /\ service_metadata[100][BlueprintCopy][1] = "bpc"
C8_Witness ==
    /\ OnIconPath
    /\ CategoryOf(TheType.info) = 9
    /\ TheType.info.group_id = 1888
    /\ AllOn({Icon, Reaction, Blueprint}, "reaction")

\* C9: a type outside categories 9 and 34 whose graphic folder is known and
\* whose _512.jpg is in the store gets kind Render, named <hash>.jpg.
C9_Render ==
    (/\ Processed
     /\ CategoryOf(TheType.info) \notin {0, 9, 34}
     /\ FolderKnown(TheType.info)
     /\ has_resource(G512))
        => /\ Render \in Kinds(100)
           /\ service_metadata[100][Render] = <<hash_of(G512), ".jpg">>

\* The failing case of C9: the render resource is in the store, no icon can
\* be made, and the run ended well without a Render
C9_NoRender ==
    /\ pc = "done" /\ result.ok
    /\ CategoryOf(TheType.info) = 6
    /\ FolderKnown(TheType.info) /\ has_resource(G512) /\ ~has_resource(G64)
    /\ TheType.info.icon_id = None
    /\ Kinds(100) = {}
    /\ new_index = {}

\* C10: a SKIN type without skin material gets no entry in service_metadata
\* and does not make the run fail.
C10_SkinWithoutMaterial ==
    (/\ Len(types) = 1
     /\ CategoryOf(TheType.info) = 91
     /\ 100 \notin DOMAIN skin_materials)
        => /\ 100 \notin DOMAIN service_metadata
           /\ pc = "done" => result.ok


\* The failing case of C10: the SKIN type without material got the icon of
\* its icon_id
C10_SkinIcon ==
    /\ pc = "done" /\ result.ok
    /\ CategoryOf(TheType.info) = 91
    /\ 100 \notin DOMAIN skin_materials
    /\ TheType.info.icon_id = 10
    /\ Kinds(100) = {Icon}
    /\ service_metadata[100][Icon] = <<hash_of(Icon10), ".png">>

\* C11: a SKIN type with a skin material gets its Icon from the resource
\* named after the material: whenever it has an Icon, the file is named by
\* the hash of that resource, and it has one when the resource is in the
\* store.
C11_SkinFromMaterial ==
    (/\ Processed
     /\ CategoryOf(TheType.info) = 91
     /\ 100 \in DOMAIN skin_materials)
        => /\ has_resource(SkinResource(skin_materials[100])) => Icon \in Kinds(100)
           /\ Icon \in Kinds(100) =>
                 /\ has_resource(SkinResource(skin_materials[100]))
                 /\ service_metadata[100][Icon][1] = hash_of(SkinResource(skin_materials[100]))

\* The failing case of C11: the SKIN type has a material whose resource is
\* in the store, and its Icon is the file of its icon_id
C11_SkinIconFromIconId ==
    /\ pc = "done" /\ result.ok
    /\ CategoryOf(TheType.info) = 91
    /\ 100 \in DOMAIN skin_materials
    /\ has_resource(Skin7)
    /\ TheType.info.icon_id = 10
    /\ Kinds(100) = {Icon}
    /\ service_metadata[100][Icon] = <<hash_of(Icon10), ".png">>
    /\ hash_of(Icon10) # hash_of(Skin7)

\* C12: a run over a type whose icon_id is not in the icon-file table ends
\* in an error.
C12_UnknownIconFatal ==
    (/\ Len(types) = 1
     /\ TheType.info.icon_id # None
     /\ TheType.info.icon_id \notin DOMAIN icon_files
     /\ pc = "done")
        => ~result.ok

\* The failing case of C12: the icon of the graphic folder is used, the
\* icon_id is never looked up, and the run ends well
C12_UnknownIconUnnoticed ==
    /\ pc = "done" /\ result.ok
    /\ TheType.info.icon_id = 11 /\ 11 \notin DOMAIN icon_files
    /\ CategoryOf(TheType.info) = 6
    /\ FolderKnown(TheType.info) /\ has_resource(G64)
    /\ TheType.info.group_id = 25
    /\ Icon \in Kinds(100)
    /\ service_metadata[100][Icon][1] = hash_of(G64)

\* The icon resource the loop body settles on for the first type, from the
\* graphic folder, the icon-file table or the skin-material table; <<>> when
\* it settles on none
ChosenIcon ==
    LET info == TheType.info
        cat == CategoryOf(info)
        icon_known == info.icon_id # None /\ info.icon_id \in DOMAIN icon_files
    IN  IF cat \in {9, 34}
        THEN (IF FolderKnown(info) THEN G64Bp
              ELSE IF icon_known THEN icon_files[info.icon_id]
              ELSE <<>>)
        ELSE IF FolderKnown(info)
        THEN (IF has_resource(G64) /\ info.group_id \notin {12, 340, 448, 479, 548, 649, 711, 4168}
              THEN G64
              ELSE IF icon_known THEN icon_files[info.icon_id]
              ELSE IF info.icon_id = None THEN G64
              ELSE <<>>)
        ELSE IF icon_known THEN icon_files[info.icon_id]
        ELSE IF info.icon_id = None /\ cat = 91 /\ 100 \in DOMAIN skin_materials
        THEN SkinResource(skin_materials[100])
        ELSE <<>>

\* C13: when the icon resource chosen for the first type is not in the
\* store, the run does not fail at that type (unless the copy of its render
\* fails), the type gets no Icon and adds no filename but that of its
\* render, and the type after it gets its Icon, in the index and on disk.
C13_MissingIconSkipped ==
    (/\ pc # "idle"
     /\ CategoryOf(TheType.info) # 0
     /\ ChosenIcon # <<>>
     /\ ~has_resource(ChosenIcon))
        => /\ (pc = "done" /\ ~result.ok /\ pos = 1) => Render \in Kinds(100)
           /\ Icon \notin Kinds(100)
           /\ (pc = "loop" /\ pos = 2) =>
                 new_index = {service_metadata[100][k] : k \in Kinds(100)}
           /\ Kinds(100) \subseteq {Render}
           /\ (pc \in {"publish", "remove"} \/ (pc = "done" /\ result.ok)) =>
                 /\ Kinds(101) = {Icon}
                 /\ service_metadata[101][Icon] = <<hash_of(Icon12), ".png">>
                 /\ service_metadata[101][Icon] \in new_index
                 /\ service_metadata[101][Icon] \in DOMAIN icon_dir
C13_Witness ==
    /\ pc = "done" /\ result.ok
    /\ CategoryOf(TheType.info) = 6
    /\ TheType.info.icon_id = 10 /\ ~has_resource(Icon10)
    /\ ChosenIcon = Icon10
    /\ FolderKnown(TheType.info) /\ has_resource(G512)
    /\ Kinds(100) = {Render}
    /\ Kinds(101) = {Icon}
    /\ Cardinality(new_index) = 2

\* C14: neither the start of a run nor a step of its loop over the types,
\* the one that fails included, changes cache.csv or an output artifact (archive, web directory,
\* index.json, checksum file, stdout) or takes a file away from the cache
\* directory; a run that failed in the loop leaves cache.csv as it loaded it.
C14_FailureLeavesDisk ==
    [][(pc' = "loop" \/ (pc = "loop" /\ pc' = "done"))
          => /\ cache_csv' = cache_csv
             /\ LoadIndex(cache_csv') = old_index'
             /\ web_dir' = web_dir
             /\ web_index' = web_index
             /\ out_files' = out_files
             /\ stdout' = stdout
             /\ DOMAIN icon_dir \subseteq DOMAIN icon_dir']_vars
C14_Witness ==
    /\ pc = "done" /\ ~result.ok
    /\ pos <= Len(types)
    /\ cache_csv.exists /\ old_index # {}
    /\ LoadIndex(cache_csv) = old_index
    /\ new_index \ old_index # {}
    /\ calls # <<>>
    /\ DOMAIN web_dir # {}

\* C15: files leave the cache directory only in the last step of a run,
\* after the loop, the index write and the publication; they are files of
\* old index minus new index, all of them when the run succeeds; and the
\* run then returns (|new - old|, |old - new|).
C15_DeleteLast ==
    [][LET gone == DOMAIN icon_dir \ DOMAIN icon_dir'
       IN  /\ gone # {} =>
                /\ pc = "remove"
                /\ LoadIndex(cache_csv) = new_index
                /\ gone \subseteq old_index \ new_index
           /\ (pc = "remove" /\ result'.ok) =>
                /\ gone = old_index \ new_index
                /\ new_index \subseteq DOMAIN icon_dir'
                /\ \A t \in DOMAIN service_metadata : \A k \in DOMAIN service_metadata[t] :
                      service_metadata[t][k] \in DOMAIN icon_dir'
                /\ result'.added = Cardinality(new_index \ old_index)
                /\ result'.removed = Cardinality(old_index \ new_index)]_vars
C15_Witness ==
    /\ pc = "done" /\ result.ok
    /\ result.removed = 1
    /\ old_index \ new_index # {}
    /\ old_index \cap new_index # {}
    /\ (old_index \ new_index) \cap DOMAIN icon_dir = {}
    /\ new_index \subseteq DOMAIN icon_dir

\* C16: a successful run without force_rebuild that follows a run that
\* ended early, on the same inputs, leaves every filename of cache.csv with
\* a file in the cache directory and no file in the cache directory that is
\* not in cache.csv.
C16_RepairAfterInterrupt ==
    (/\ pc = "done" /\ result.ok /\ ~force_rebuild
     /\ prev # <<>> /\ ~prev[1].result.ok
     /\ prev[1].types = types /\ prev[1].store = store)
        => /\ LoadIndex(cache_csv) \subseteq DOMAIN icon_dir
           /\ DOMAIN icon_dir \subseteq LoadIndex(cache_csv)

\* The failing case of C16: the earlier run had written the index, the
\* later one found nothing to remove and returned (0, 0), and a file that is
\* in no index stays in the cache directory
C16_OrphanFile ==
    /\ pc = "done" /\ result.ok /\ ~force_rebuild
    /\ prev # <<>> /\ ~prev[1].result.ok
    /\ prev[1].types = types /\ prev[1].store = store
    /\ result.added = 0 /\ result.removed = 0
    /\ LoadIndex(cache_csv) = new_index
    /\ DOMAIN icon_dir \ new_index # {}

\* C17: in the step that ends the publication, when nothing was added or
\* removed and skip_output_if_fresh is set, no archive, web directory or
\* checksum file is written, but the digest is still printed in checksum
\* mode without output file; when the flag is not set the output of the
\* mode is written.
C17_SkipIfFresh ==
    [][(pc = "publish" /\ pc' = "remove")
          => LET fresh == new_index \ old_index = {} /\ old_index \ new_index = {}
                 to_stdout == output_mode.kind = "Checksum" /\ output_mode.out = ""
             IN  IF skip_output_if_fresh /\ fresh /\ ~to_stdout
                 THEN /\ out_files' = out_files
                      /\ web_dir' = web_dir
                      /\ web_index' = web_index
                      /\ stdout' = stdout
                 ELSE CASE to_stdout ->
                             stdout' = Append(stdout, Md5(index_bytes))
                        [] output_mode.kind = "Checksum" /\ ~to_stdout ->
                             /\ output_mode.out \in DOMAIN out_files'
                             /\ out_files'[output_mode.out] = Md5(index_bytes)
                        [] output_mode.kind \in {"ServiceBundle", "IEC"} ->
                             /\ output_mode.out \in DOMAIN out_files'
                             /\ out_files'[output_mode.out].complete
                        [] output_mode.kind = "Web" ->
                             /\ web_index'.exists
                             /\ \A t \in DOMAIN service_metadata :
                                   JsonName(t) \in DOMAIN web_index'.links]_vars

\* The failing case of C17: checksum mode without output file, the flag set,
\* nothing added or removed, and the publication ended with nothing printed
\* by this run
C17_DigestNotPrinted ==
    /\ pc = "remove"
    /\ output_mode.kind = "Checksum" /\ output_mode.out = ""
    /\ skip_output_if_fresh
    /\ new_index = old_index /\ new_index # {}
    /\ runs = 2 /\ prev # <<>> /\ prev[1].result.ok
    /\ Len(stdout) = 1

\* The names in the web directory and in index.json that belong to a type
NamesOfType(t) == {JsonName(t)} \cup {LinkName(t, k) : k \in IconKind}

\* The type ids the model runs on
TypeIds == {c.type_id : c \in Catalog}

\* C18: after a successful Web run that follows a successful Web run on the
\* same directories, a type that the run did not classify has no manifest
\* and no link file in the web directory and no entry in index.json,
\* whatever force_rebuild and skip_output_if_fresh are.
C18_WebStaleCleanup ==
    (/\ pc = "done" /\ result.ok
     /\ output_mode.kind = "Web"
     /\ prev # <<>> /\ prev[1].result.ok)
        => \A t \in TypeIds \ DOMAIN service_metadata :
              /\ NamesOfType(t) \cap DOMAIN web_dir = {}
              /\ NamesOfType(t) \cap DOMAIN old_links = {}

\* The failing case of C18: type 101 was published by the run before, is
\* not in the type list of this run, which skipped the publication, and its
\* manifest is still in the web directory and in index.json
C18_StaleManifestKept ==
    /\ pc = "done" /\ result.ok
    /\ output_mode.kind = "Web"
    /\ skip_output_if_fresh
    /\ prev # <<>> /\ prev[1].result.ok
    /\ Len(prev[1].types) = 2 /\ prev[1].types[2].type_id = 101
    /\ 101 \notin DOMAIN service_metadata
    /\ JsonName(101) \in DOMAIN web_dir
    /\ JsonName(101) \in DOMAIN old_links

\* C19: a Web publication that is not skipped and succeeds leaves an
\* index.json with exactly one entry per type of service_metadata (its
\* manifest) and one per (type, kind), the link entry holding the cache
\* filename of the pair; without force_rebuild a link that the previous
\* index.json recorded with the same cache filename is not written again; and
\* every name removed from the web directory was in the previous index.json
\* and is not in the new one.
C19_WebIndex ==
    [][(/\ pc = "publish" /\ pc' = "remove"
        /\ output_mode.kind = "Web"
        /\ ~(Fresh /\ skip_output_if_fresh))
          => LET manifests == {JsonName(t) : t \in DOMAIN service_metadata}
                 links == {LinkName(p[1], p[2]) : p \in MetadataPairs}
             IN  /\ web_index'.exists
                 /\ DOMAIN web_index'.links = manifests \cup links
                 /\ Cardinality(manifests) = Cardinality(DOMAIN service_metadata)
                 /\ Cardinality(links) = Cardinality(MetadataPairs)
                 /\ manifests \cap links = {}
                 /\ \A p \in MetadataPairs :
                       web_index'.links[LinkName(p[1], p[2])] = service_metadata[p[1]][p[2]]
                 /\ ~force_rebuild =>
                       \A p \in MetadataPairs :
                          LET n == LinkName(p[1], p[2])
                          IN  (n \in DOMAIN old_links
                               /\ old_links[n] = service_metadata[p[1]][p[2]])
                                 => /\ n \notin link_ops'
                                    /\ (n \in DOMAIN web_dir => web_dir'[n] = web_dir[n])
                 /\ \A n \in DOMAIN web_dir \ DOMAIN web_dir' :
                       n \in DOMAIN old_links /\ n \notin DOMAIN web_index'.links]_vars

\* A second Web publication without force_rebuild that left the link of one
\* type alone and removed the entries of a type that is no longer listed
C19_Witness ==
    /\ pc = "remove"
    /\ output_mode.kind = "Web"
    /\ ~force_rebuild /\ ~skip_output_if_fresh
    /\ runs = 2 /\ prev # <<>> /\ prev[1].result.ok
    /\ web_index.exists
    /\ \E n \in DOMAIN web_index.links :
          n[Len(n)] # ".json" /\ n \notin link_ops /\ n \in DOMAIN web_dir
    /\ \E n \in link_ops : n \notin DOMAIN web_index.links /\ n \notin DOMAIN web_dir

\* C20: the archive a ServiceBundle publication completes has one entry for
\* each filename of the new index, holding the bytes of that cache file, and
\* the service_metadata.json entry holding service_metadata; every filename
\* that service_metadata gives to a (type, kind) is an entry of the archive.
C20_ServiceBundle ==
    [][(/\ pc = "publish" /\ pc' = "remove"
        /\ output_mode.kind = "ServiceBundle"
        /\ ~(Fresh /\ skip_output_if_fresh))
          => /\ output_mode.out \in DOMAIN out_files'
             /\ LET zip == out_files'[output_mode.out]
                IN  /\ zip.complete
                    /\ DOMAIN zip.entries = new_index
                    /\ \A f \in new_index : zip.entries[f] = icon_dir[f]
                    /\ zip.metadata = service_metadata
                    /\ \A p \in MetadataPairs :
                          zip.metadata[p[1]][p[2]] \in DOMAIN zip.entries]_vars

\* A second run that added nothing to the index and wrote an archive of two
\* kinds of one type
C20_Witness ==
    /\ pc = "remove"
    /\ output_mode.kind = "ServiceBundle"
    /\ ~skip_output_if_fresh
    /\ runs = 2 /\ to_add = {} /\ new_index # {}
    /\ output_mode.out \in DOMAIN out_files
    /\ out_files[output_mode.out].complete
    /\ DOMAIN out_files[output_mode.out].entries = new_index
    /\ Cardinality(MetadataPairs) >= 2

C22_DigestOfSet ==
    /\ (pc \in {"publish", "remove"} \/ (pc = "done" /\ result.ok))
          => /\ index_bytes = IndexBytes(new_index)
             /\ cache_csv.bytes = index_bytes
    /\ (/\ pc = "done" /\ result.ok
        /\ output_mode = Checksum("")
        /\ ~skip_output_if_fresh
        /\ prev # <<>> /\ prev[1].result.ok
        /\ ~prev[1].skip_output_if_fresh
        /\ prev[1].types = types /\ prev[1].store = store)
          => /\ Len(stdout) >= 2
             /\ stdout[Len(stdout)] = stdout[Len(stdout) - 1]
             /\ stdout[Len(stdout)] = Md5(IndexBytes(new_index))

\* Two checksum runs on the same inputs, the second with force_rebuild, over
\* an index of two filenames or more
C22_Witness ==
    /\ pc = "done" /\ result.ok
    /\ output_mode = Checksum("")
    /\ ~skip_output_if_fresh /\ force_rebuild
    /\ prev # <<>> /\ prev[1].result.ok /\ ~prev[1].skip_output_if_fresh
    /\ prev[1].types = types /\ prev[1].store = store
    /\ Cardinality(new_index) >= 2
    /\ Len(stdout) = 2

\* The orderings of a type list
Reorderings(list) ==
    {[i \in 1..Len(list) |-> list[p[i]]] :
        p \in {q \in [1..Len(list) -> 1..Len(list)] :
                 \A i, j \in 1..Len(list) : i # j => q[i] # q[j]}}

\* C23: when the loop of a run has succeeded, the loop over every other
\* ordering of the type list succeeds too and gives the same new index and
\* the same service_metadata, and the counts the run returns are those of
\* that ordering.
C23_OrderIndependent ==
    (pc \in {"publish", "remove"} \/ (pc = "done" /\ result.ok))
        => \A list \in Reorderings(types) :
              LET r == TypeLoop(list, 1, [new |-> {}, metadata |-> EmptyMap,
                                          disk |-> icon_dir, calls |-> <<>>])
              IN  /\ LoopSucceeds(list)
                  /\ r.new = new_index
                  /\ r.metadata = service_metadata
                  /\ (pc = "done" =>
                        /\ result.added = Cardinality(r.new \ old_index)
                        /\ result.removed = Cardinality(old_index \ r.new))

\* A successful run over two types that both have an entry in
\* service_metadata, with different cache files
C23_Witness ==
    /\ pc = "done" /\ result.ok
    /\ Len(types) = 2 /\ types[1].type_id # types[2].type_id
    /\ {types[1].type_id, types[2].type_id} \subseteq DOMAIN service_metadata
    /\ Cardinality(new_index) >= 2
    /\ \E k \in DOMAIN service_metadata[types[1].type_id] :
          \A j \in DOMAIN service_metadata[types[2].type_id] :
             service_metadata[types[1].type_id][k] # service_metadata[types[2].type_id][j]

\* C24: preload downloads no more than max_items files, and the count it
\* returns is the number of files it downloaded.
C24_PreloadAtMost ==
    /\ downloader.pc # "idle" => Len(downloader.fetched) <= downloader.max_items
    /\ (downloader.pc = "done" /\ downloader.ret.ok)
          => /\ downloader.ret.value = Len(downloader.fetched)
             /\ downloader.ret.value <= downloader.max_items

\* The failing case of C24: preload(0, sleep) returned 1
C24_OneForZero ==
    /\ downloader.pc = "done" /\ downloader.ret.ok
    /\ downloader.max_items = 0
    /\ downloader.ret.value = 1
    /\ Len(downloader.fetched) = 1

\* The output location holds the complete artifact of the current
\* service_metadata and index
Published ==
    CASE output_mode.kind = "ServiceBundle" ->
           /\ output_mode.out \in DOMAIN out_files
           /\ out_files[output_mode.out] = BundleArchive
           /\ BundleArchive.complete
      [] output_mode.kind = "IEC" ->
           /\ output_mode.out \in DOMAIN out_files
           /\ out_files[output_mode.out] = IecArchive
           /\ IecArchive.complete
      [] output_mode.kind = "Web" ->
           /\ web_index.exists
           /\ DOMAIN web_index.links
                 = {JsonName(t) : t \in DOMAIN service_metadata}
                   \cup {LinkName(p[1], p[2]) : p \in MetadataPairs}
           /\ DOMAIN web_index.links \subseteq DOMAIN web_dir
           /\ \A p \in MetadataPairs :
                 /\ web_index.links[LinkName(p[1], p[2])] = service_metadata[p[1]][p[2]]
                 /\ web_dir[LinkName(p[1], p[2])].of = service_metadata[p[1]][p[2]]
      [] output_mode.kind = "Checksum" /\ output_mode.out # "" ->
           /\ output_mode.out \in DOMAIN out_files
           /\ out_files[output_mode.out] = Md5(index_bytes)
      [] OTHER -> TRUE

\* C25: when a run with skip_output_if_fresh skips the publication, the
\* output location already holds the complete artifact of the
\* service_metadata and index of this run.
C25_SkipOnlyIfPublished ==
    (pc = "remove" /\ skip_output_if_fresh /\ Fresh) => Published

\* The failing case of C25: a Web run with the flag that lists type 101 for
\* the first time, on the cache file type 100 already has, and skipped the
\* publication: the web directory has nothing for type 101
C25_SkippedUnpublished ==
    /\ pc = "remove" /\ skip_output_if_fresh /\ Fresh
    /\ output_mode.kind = "Web"
    /\ prev # <<>> /\ prev[1].result.ok
    /\ 101 \in DOMAIN service_metadata
    /\ web_index.exists
    /\ JsonName(101) \notin DOMAIN web_index.links
    /\ JsonName(101) \notin DOMAIN web_dir

\* C26: every filename of cache.csv has a file in the cache directory, in
\* every state of every sequence of runs that starts on an empty cache
\* directory; after a successful run cache.csv holds the new index of that
\* run.
C26_IndexBacked ==
    /\ LoadIndex(cache_csv) \subseteq DOMAIN icon_dir
    /\ (pc = "done" /\ result.ok)
          => /\ LoadIndex(cache_csv) = new_index
             /\ new_index \subseteq DOMAIN icon_dir

\* A successful second run, with force_rebuild and the skip flag, that kept
\* one file of the old index and removed another
C26_Witness ==
    /\ pc = "done" /\ result.ok
    /\ runs = 2
    /\ force_rebuild /\ skip_output_if_fresh
    /\ old_index \cap new_index # {}
    /\ old_index \ new_index # {}
    /\ LoadIndex(cache_csv) = new_index

\* C27: two outputs of a run that have the same filename are built by the
\* same procedure from sources of the same contents, in the same order; and
\* after a successful run the file stored under the filename of an output is
\* what the recipe of that output builds.
C27_NameIdentifiesRecipe ==
    pc \in {"loop", "publish", "remove", "done"} =>
        \A i \in 1..(pos - 1) : \A a \in 1..Len(OutputsOf(i)) :
            LET o == OutputsOf(i)[a]
            IN  /\ \A j \in 1..(pos - 1) : \A b \in 1..Len(OutputsOf(j)) :
                      LET p == OutputsOf(j)[b]
                      IN  o.filename = p.filename => Built(o) = Built(p)
                /\ (pc = "done" /\ result.ok) => icon_dir[o.filename] = Built(o)

\* The failing case of C27: the bp file of the graphic blueprint and that of
\* the icon blueprint have one filename, and after the run the file is the
\* one composite_blueprint made on the bpo background
C27_SharedBlueprintName ==
    /\ pc = "done" /\ result.ok
    /\ {100, 101} \subseteq DOMAIN service_metadata
    /\ Blueprint \in DOMAIN service_metadata[100]
    /\ Blueprint \in DOMAIN service_metadata[101]
    /\ service_metadata[100][Blueprint] = service_metadata[101][Blueprint]
    /\ types[1].type_id = 100
    /\ icon_dir[service_metadata[100][Blueprint]].proc = "composite_blueprint"

\* C28: checksum.txt names a release only when fsd.zip was downloaded to the
\* end from that release; so a call of update_sde that follows a call that
\* failed during the download does not take fsd.zip as up to date.
C28_ChecksumAfterArchive ==
    /\ (sde.pc = "done" /\ sde.checksum_txt # "")
          => /\ sde.fsd_zip.exists
             /\ sde.fsd_zip.complete
             /\ sde.fsd_zip.of = sde.checksum_txt
    /\ (sde.pc = "open" /\ ~sde.download)
          => sde.fsd_zip.complete /\ sde.fsd_zip.of = sde.new_version

\* The failing case of C28: the second call, after a call that failed while
\* fsd.zip was being written, found the checksum of the release in
\* checksum.txt and did not download
C28_PartialTakenAsCurrent ==
    /\ sde.pc = "open"
    /\ sde.calls = 2
    /\ ~sde.download
    /\ sde.fsd_zip.exists /\ ~sde.fsd_zip.complete
    /\ sde.checksum_txt = sde.remote

\* C29: in service_metadata a type that has the kind Blueprint, Reaction or
\* Relic has the kind Icon too, on the same cache filename.
C29_IconDuplicates ==
    \A t \in DOMAIN service_metadata :
        \A k \in {Blueprint, Reaction, Relic} \cap DOMAIN service_metadata[t] :
            /\ Icon \in DOMAIN service_metadata[t]
            /\ service_metadata[t][Icon] = service_metadata[t][k]

\* A finished run over a relic: the kinds Relic and Icon on one relic file
C29_Witness ==
    /\ pc = "done" /\ result.ok
    /\ 100 \in DOMAIN service_metadata
    /\ {Icon, Relic} \subseteq DOMAIN service_metadata[100]
    /\ service_metadata[100][Relic][1] = "relic"
    /\ service_metadata[100][Relic] \in DOMAIN icon_dir

\* C30: no two compositor operations of one run write the same cache
\* filename.
C30_BuiltOnce ==
    \A i, j \in 1..Len(calls) : i # j => calls[i].filename # calls[j].filename

\* The failing case of C30: the first run over two types that have one icon,
\* without force_rebuild, wrote the file of that icon twice
C30_BuiltTwice ==
    /\ pc = "done" /\ result.ok
    /\ runs = 1 /\ ~force_rebuild
    /\ Len(types) = 2
    /\ Len(calls) = 2
    /\ calls[1].filename = calls[2].filename
    /\ Cardinality(new_index) = 1

====
